---- MODULE Spec2Model ----
(***************************************************************************)
(* Bulk waveform jobs of the Sermon Summarization API: WaveformService     *)
(* (job store, background task, progress line protocol, export encoders),  *)
(* the read endpoints of SermonsController, WaveformProgressHub and the    *)
(* browser client (useWaveformProgress, BulkWaveformGenerator).            *)
(*                                                                         *)
(* One job is followed from the start request to the end of its background *)
(* task.  The external batch process is opaque: every stdout line, its     *)
(* exit code and its stderr text are inputs.  Strings that are only        *)
(* compared are TLA+ strings; strings that are concatenated (the error     *)
(* message) are sequences of tokens.  The hub broadcasts of the task are    *)
(* taken not to throw.  An export request is two steps, the controller's   *)
(* checks and the service's, each reading the job once; the background     *)
(* task may run between them.  response is the answer of the last read     *)
(* request.  idle counts the ticks since the entry was last got or set;    *)
(* Expire evicts it when the idle window has passed.                       *)
(*                                                                         *)
(* The specifications share the state: Spec (store and background task),   *)
(* SpecRead (the task beside the read endpoints), SpecHub (connections     *)
(* and groups of the hub), SpecClient (one browser client beside the       *)
(* task: live events, reconnects and status polls), SpecSteps (the read    *)
(* loop statement by statement, a get job status running between any two   *)
(* statements, with the logs of updates and of events), SpecStems (exports *)
(* of a job whose files differ only in extension) and SpecUpload (the      *)
(* process-sermon and get-status endpoints of SermonProcessingService).    *)
(* SpecLive and SpecClientLive add the fairness of the task, of the end    *)
(* of the process and of the client's requests.                            *)
(***************************************************************************)
EXTENDS Integers, Sequences, FiniteSets, TLC

\* ------------------------------------------------------------------ bounds
\* stdout lines the background task reads before the stream ends
MaxLines == 3
\* largest total_files value a started record carries
MaxTotal == 2
\* ticks of the clock in one idle window of the sliding expiration
WindowTicks == 2
\* events the service sends to the groups of the hub
MaxEvents == 3
\* status polls of the client that can be in flight at once
MaxInFlight == 2

\* ------------------------------------------------------------ input values
Filenames == {"a.mp3", "b.mp3"}
FileStatuses == {"success", "error", "pending"}
TotalValues == 0..MaxTotal
Terminal == {"completed", "failed"}

\* the absent value of the optional fields Error and CurrentFile
NoText == <<"<null>">>
NoTime == 0
ErrorTexts == {<<"boom">>, NoText}
StderrTexts == {<<>>, <<"Traceback">>}
\* ex.Message of the exceptions the background task catches
SpawnMessage == <<"Failed to start Python process">>
ReaderMessage == <<"The pipe has been ended">>
ElementMessage == <<"The requested operation requires an element of type">>

\* lines ProcessProgressLineAsync or the read loop drops without any update
SkippedKinds == {"blank", "invalid-json", "no-type", "null-type", "unknown-type",
                 "started-no-total", "progress-no-fields", "error-no-field"}
\* lines on which a JsonElement accessor throws InvalidOperationException
ThrowingKinds == {"non-object", "type-not-string", "field-wrong-type"}
\* the lines claim C8 calls malformed or of unknown discriminant
MalformedKinds == {"invalid-json", "non-object", "no-type", "null-type",
                   "type-not-string", "unknown-type"}

VARIABLES inStore, idle, job, pc, linesRead, exit, stderrText, hist, startResp,
          exportPc, response,
          groups, online, received, sent, subs,
          display, connection, subscribed, invokePending, polls, clientHist,
          lineHeld, applied, events,
          uploads, tempFiles, processingCache, statusResponse

\* the hub: group membership, live connections, what each connection received,
\* events sent so far, and who the callers hold to be subscribed to which job
hubVars == <<groups, online, received, sent, subs>>
\* the browser client of the job: its jobStatus state, its hub connection, its
\* membership in the job's group, its SubscribeToJob call in flight, its status
\* polls in flight, and its history
clientVars == <<display, connection, subscribed, invokePending, polls, clientHist>>
\* the read loop seen step by step: the line it holds, the records whose update
\* is committed, the events it has broadcast
stepVars == <<lineHeld, applied, events>>
\* the upload endpoint: its calls in flight, the files of the temp directory,
\* the dictionary of each service instance, the latest answer of get status
uploadVars == <<uploads, tempFiles, processingCache, statusResponse>>

vars == <<inStore, idle, job, pc, linesRead, exit, stderrText, hist, startResp,
          exportPc, response, hubVars, clientVars, stepVars, uploadVars>>

\* the variables of a read request: the step of an export, the latest answer
exportVars == <<exportPc, response>>
\* the variables of the background task
taskVars == <<pc, linesRead, exit, stderrText, hist>>
\* the variables of the service and its controller
serviceVars == <<inStore, idle, job, taskVars, startResp, exportVars>>

\* ------------------------------------------------------------- job state
NewJob ==
    [status |-> "queued", totalFiles |-> 0, processedFiles |-> 0,
     successfulFiles |-> 0, failedFiles |-> 0, currentFile |-> NoText,
     results |-> <<>>, error |-> NoText, endTime |-> NoTime,
     estimated |-> FALSE]

UtcNow == linesRead + 1

RECURSIVE CountStatus(_, _)
CountStatus(results, statuses) ==
    IF results = <<>> THEN 0
    ELSE (IF Head(results).status \in statuses THEN 1 ELSE 0)
         + CountStatus(Tail(results), statuses)

UpdateJobState(newState) == IF inStore THEN newState ELSE job

\* history of the run, kept for the statements only
Track(newJob, known, terminalRec) ==
    [totalKnown |-> hist.totalKnown \/ (known /\ inStore),
     terminalRec |-> hist.terminalRec \/ (terminalRec /\ inStore),
     replaced |-> hist.replaced
        \/ (Len(newJob.results) = Len(job.results) /\ newJob.results # job.results),
     failTransitions |-> hist.failTransitions
        + (IF job.status # "failed" /\ newJob.status = "failed" THEN 1 ELSE 0),
     lateUpdate |-> hist.lateUpdate \/ ~inStore]

\* the answers of the read endpoints (status, waveform, export)
NoPayload ==
    [csvColumns |-> <<>>, waveforms |-> <<>>,
     archive |-> [entries |-> <<>>, manifest |-> <<>>]]
Reply(endpoint, code) ==
    [endpoint |-> endpoint, code |-> code, format |-> "",
     csvColumns |-> NoPayload.csvColumns, waveforms |-> NoPayload.waveforms,
     archive |-> NoPayload.archive]
Answer(code) == Reply("export", code)
NoResponse == Reply("none", "none")

\* ------------------------------------------------ the client's handlers
\* the connections and the job ids the hub is called with
Connections == {"c1", "c2"}
JobIds == {"J1", "J2"}

\* jobStatus before handleStartJob has set it (null)
NoJobStatus ==
    [status |-> "<null>", totalFiles |-> 0, processedFiles |-> 0, results |-> <<>>]

\* the fields of a WaveformJobStatus the client displays
Snapshot(state) ==
    [status |-> state.status, totalFiles |-> state.totalFiles,
     processedFiles |-> state.processedFiles, results |-> state.results]

onJobStarted(prev, data) ==
    [prev EXCEPT !.totalFiles = data.totalFiles, !.status = "processing"]

onFileProgress(prev, data) ==
    [prev EXCEPT !.processedFiles = data.current]

onFileComplete(prev, data) ==
    LET existingResult ==
            \E i \in DOMAIN prev.results :
                prev.results[i].filename = data.fileResult.filename
        updatedResults ==
            IF existingResult
            THEN [i \in DOMAIN prev.results |->
                    IF prev.results[i].filename = data.fileResult.filename
                    THEN data.fileResult ELSE prev.results[i]]
            ELSE Append(prev.results, data.fileResult)
    IN [prev EXCEPT !.results = updatedResults]

onJobComplete(prev, data) == [prev EXCEPT !.status = "completed"]

onJobFailed(prev, data) == [prev EXCEPT !.status = "failed"]

\* setJobStatus(prev => prev ? handler : null) of the handler of the event
Handle(data, prev) ==
    IF prev = NoJobStatus THEN prev
    ELSE CASE data.name = "JobStarted" -> onJobStarted(prev, data)
           [] data.name = "FileProgress" -> onFileProgress(prev, data)
           [] data.name = "FileComplete" -> onFileComplete(prev, data)
           [] data.name = "JobComplete" -> onJobComplete(prev, data)
           [] data.name = "JobFailed" -> onJobFailed(prev, data)

\* Clients.Group("job-" + jobId).SendAsync of the background task, as the
\* client of the job gets it: delivered only while it is in the group
Broadcast(data) ==
    /\ display' = (IF subscribed THEN Handle(data, display) ELSE display)
    /\ clientHist' = [clientHist EXCEPT
                        !.missed = @ \/ (clientHist.dropped /\ ~subscribed)]
    /\ UNCHANGED <<connection, subscribed, invokePending, polls>>

\* ------------------------------------------- values of the upload endpoint
\* the process-sermon requests, the get-status requests
Calls == {"u1", "u2"}
StatusRequests == {"g1"}
Requests == Calls \cup StatusRequests

\* the id of a response without one, and the requestId ProcessSermonAsync draws
NoId == <<>>
RequestId(call) == <<"id", call>>

\* a process-sermon request that has not arrived yet
NoCall == [pc |-> "none", ext |-> "", id |-> NoId, status |-> "", lost |-> FALSE]
NoStatusResponse == [code |-> "none", id |-> NoId]

\* a line of stdout as the read loop decodes it, or the end of the process: the
\* fields a record does not carry hold a default
Record(type, filename, status, number, error) ==
    [type |-> type, filename |-> filename, status |-> status, number |-> number,
     error |-> error]
NoRecord == Record("none", "", "", 0, NoText)

\* the read loop holds no line
NoLine == [rec |-> NoRecord, no |-> 0, todo |-> <<>>, sub |-> 0, before |-> NewJob,
           seen |-> FALSE]

\* ---------------------------------------------------------------- start
\* a start that stores the entry and schedules the task before it validates
StartBulkWaveformJobAsync_storeFirst(directoryExists) ==
    /\ startResp = "none"
    /\ inStore' = TRUE
    /\ idle' = 0
    /\ job' = NewJob
    /\ pc' = "begin"
    /\ startResp' = (IF directoryExists THEN "queued" ELSE "failed")
    /\ UNCHANGED <<linesRead, exit, stderrText, hist, exportVars, hubVars, stepVars, uploadVars, clientVars>>

StartBulkWaveformJobAsync(directoryExists) ==
    /\ startResp = "none"
    /\ IF directoryExists
       THEN /\ inStore' = TRUE
            /\ idle' = 0
            /\ job' = NewJob
            /\ pc' = "begin"
            /\ startResp' = "queued"
       ELSE /\ startResp' = "failed"
            /\ UNCHANGED <<inStore, idle, job, pc>>
    /\ UNCHANGED <<linesRead, exit, stderrText, hist, exportVars, hubVars, stepVars, uploadVars, clientVars>>

Init ==
    /\ inStore = FALSE
    /\ idle = 0
    /\ job = NewJob
    /\ pc = "none"
    /\ linesRead = 0
    /\ exit = "running"
    /\ stderrText = <<>>
    /\ hist = [totalKnown |-> FALSE, terminalRec |-> FALSE, replaced |-> FALSE,
               failTransitions |-> 0, lateUpdate |-> FALSE]
    /\ startResp = "none"
    /\ exportPc = "idle"
    /\ response = NoResponse
    /\ groups = {}
    /\ online = {}
    /\ received = [c \in Connections |-> <<>>]
    /\ sent = 0
    /\ subs = {}
    /\ display = NoJobStatus
    /\ connection = "none"
    /\ subscribed = FALSE
    /\ invokePending = FALSE
    /\ polls = {}
    /\ clientHist = [dropped |-> FALSE, missed |-> FALSE, terminalPolled |-> FALSE]
    /\ lineHeld = NoLine
    /\ applied = <<>>
    /\ events = <<>>
    /\ uploads = [c \in Calls |-> NoCall]
    /\ tempFiles = {}
    /\ processingCache = [i \in Requests |-> {}]
    /\ statusResponse = NoStatusResponse

\* ---------------------------------------------------------- job store
\* a get or an update of an entry restarts its idle window
Touch == IF inStore THEN 0 ELSE idle

\* a tick of the clock that does not complete the idle window of the entry
Tick ==
    /\ inStore
    /\ idle + 1 < WindowTicks
    /\ idle' = idle + 1
    /\ UNCHANGED <<inStore, job, taskVars, startResp, exportVars, hubVars, stepVars, uploadVars, clientVars>>

\* the sliding expiration: the tick that completes an idle window in which
\* nothing touched the entry
Expire ==
    /\ inStore
    /\ idle + 1 = WindowTicks
    /\ inStore' = FALSE
    /\ idle' = 0
    /\ job' = NewJob
    /\ UNCHANGED <<taskVars, startResp, exportVars, hubVars, stepVars, uploadVars, clientVars>>

GetJobStatusState(state) ==
    IF state.processedFiles > 0 /\ state.status = "processing"
    THEN [state EXCEPT !.estimated = TRUE]
    ELSE state

\* SermonsController.GetBulkWaveformStatus and the service's GetJobStatus
GetJobStatus ==
    /\ job' = (IF inStore THEN GetJobStatusState(job) ELSE job)
    /\ idle' = Touch
    /\ response' = Reply("status", IF inStore THEN "ok" ELSE "not-found")
    /\ UNCHANGED <<inStore, taskVars, startResp, exportPc, hubVars, stepVars, uploadVars, clientVars>>

\* --------------------------------------------------- background task
\* UpdateJobState writes the entry only if it finds it: an absent entry stays absent
UpdateJobStateEntry_set == TRUE

UpdateJobStateEntry == inStore

Commit(newJob, known, terminalRec, nextPc) ==
    /\ inStore' = UpdateJobStateEntry
    /\ idle' = Touch
    /\ job' = newJob
    /\ hist' = Track(newJob, known, terminalRec)
    /\ pc' = nextPc
    /\ UNCHANGED <<startResp, exportVars, hubVars, stepVars, uploadVars>>

CatchException(message) ==
    /\ Commit(UpdateJobState([job EXCEPT !.status = "failed",
                                         !.error = message,
                                         !.endTime = UtcNow]),
              FALSE, FALSE, "done")
    /\ Broadcast([name |-> "JobFailed"])
    /\ exit' = "threw"
    /\ UNCHANGED stderrText

TaskBegin ==
    /\ pc = "begin"
    /\ Commit(UpdateJobState([job EXCEPT !.status = "processing"]),
              FALSE, FALSE, "spawn")
    /\ UNCHANGED <<linesRead, exit, stderrText, clientVars>>

SpawnProcess ==
    /\ pc = "spawn"
    /\ pc' = "read"
    /\ UNCHANGED <<inStore, idle, job, linesRead, exit, stderrText, hist, startResp,
                   exportVars, hubVars, stepVars, uploadVars, clientVars>>

SpawnFails ==
    /\ pc = "spawn"
    /\ CatchException(SpawnMessage)
    /\ UNCHANGED linesRead

ReaderThrows ==
    /\ pc = "read"
    /\ CatchException(ReaderMessage)
    /\ UNCHANGED linesRead

\* ----------------------------------------------- progress line protocol
ReadLine ==
    /\ pc = "read"
    /\ linesRead < MaxLines
    /\ linesRead' = linesRead + 1

LineSkipped(kind) ==
    /\ kind \in SkippedKinds
    /\ ReadLine
    /\ UNCHANGED <<inStore, idle, job, pc, exit, stderrText, hist, startResp,
                   exportVars, hubVars, stepVars, uploadVars, clientVars>>

LineThrows(kind) ==
    /\ kind \in ThrowingKinds
    /\ ReadLine
    /\ CatchException(ElementMessage)

RecStarted(totalFilesCount) ==
    /\ ReadLine
    /\ Commit(UpdateJobState([job EXCEPT !.totalFiles = totalFilesCount,
                                         !.status = "processing"]),
              TRUE, FALSE, "read")
    /\ Broadcast([name |-> "JobStarted", totalFiles |-> totalFilesCount])
    /\ UNCHANGED <<exit, stderrText>>

RecProgress(currentFile) ==
    /\ ReadLine
    /\ Commit(UpdateJobState([job EXCEPT !.currentFile = <<currentFile>>]),
              FALSE, FALSE, "read")
    /\ \E current \in TotalValues :
          Broadcast([name |-> "FileProgress", current |-> current])
    /\ UNCHANGED <<exit, stderrText>>

RecCompleted ==
    /\ ReadLine
    /\ Commit(UpdateJobState([job EXCEPT !.status = "completed",
                                         !.endTime = UtcNow,
                                         !.currentFile = NoText]),
              FALSE, TRUE, "read")
    /\ UNCHANGED <<exit, stderrText, clientVars>>

RecError(errorMessage) ==
    /\ ReadLine
    /\ Commit(UpdateJobState([job EXCEPT !.status = "failed",
                                         !.error = errorMessage,
                                         !.endTime = UtcNow]),
              FALSE, TRUE, "read")
    /\ Broadcast([name |-> "JobFailed"])
    /\ UNCHANGED <<exit, stderrText>>

FirstIndex(results, filename) ==
    LET hits == {i \in 1..Len(results) : results[i].filename = filename}
    IN IF hits = {} THEN 0 ELSE CHOOSE i \in hits : \A j \in hits : i <= j

RemoveExisting_keep(results, filename) == results

RemoveExisting(results, filename) ==
    LET at == FirstIndex(results, filename)
    IN IF at = 0 THEN results
       ELSE SubSeq(results, 1, at - 1) \o SubSeq(results, at + 1, Len(results))

CountProcessed_all(results) == Len(results)

CountProcessed(results) == CountStatus(results, {"success", "error"})

ProcessFileComplete(state, fileResult) ==
    LET results == Append(RemoveExisting(state.results, fileResult.filename),
                          fileResult)
    IN [state EXCEPT !.results = results,
                     !.processedFiles = CountProcessed(results),
                     !.successfulFiles = CountStatus(results, {"success"}),
                     !.failedFiles = CountStatus(results, {"error"})]

RecFileComplete(filename, status) ==
    /\ ReadLine
    /\ Commit(UpdateJobState(ProcessFileComplete(job,
                  [filename |-> filename, status |-> status])),
              FALSE, FALSE, "read")
    /\ Broadcast([name |-> "FileComplete",
                  fileResult |-> [filename |-> filename, status |-> status]])
    /\ UNCHANGED <<exit, stderrText>>

\* ------------------------------------------------------- process exit
ExitFailureMessage_bare(errorOutput) == <<"Processing failed: ">>

ExitFailureMessage(errorOutput) == <<"Processing failed: ">> \o errorOutput

ExitNonzero(errorOutput) ==
    /\ pc = "read"
    /\ Commit(UpdateJobState([job EXCEPT !.status = "failed",
                                         !.error = ExitFailureMessage(errorOutput),
                                         !.endTime = UtcNow]),
              FALSE, FALSE, "done")
    /\ Broadcast([name |-> "JobFailed"])
    /\ exit' = "nonzero"
    /\ stderrText' = errorOutput
    /\ UNCHANGED linesRead

\* an exit with code 0 that completes the job whatever its status is
MarkCompleted_always(state, now) ==
    [state EXCEPT !.status = "completed", !.endTime = now]

\* an exit with code 0 that leaves the job as it is
MarkCompleted_never(state, now) == state

\* the update of the exit with code 0: completed only "if not already marked"
MarkCompleted(state, now) ==
    IF state.status = "processing"
    THEN [state EXCEPT !.status = "completed", !.endTime = now]
    ELSE state

ExitZero ==
    /\ pc = "read"
    /\ LET read == IF inStore THEN GetJobStatusState(job) ELSE job
       IN Commit(UpdateJobState(MarkCompleted(read, UtcNow)),
                 FALSE, FALSE, "done")
    /\ IF inStore THEN Broadcast([name |-> "JobComplete"]) ELSE UNCHANGED clientVars
    /\ exit' = "zero"
    /\ UNCHANGED <<linesRead, stderrText>>

\* ------------------------------------------- the read loop step by step
\* The handler of a line is a sequence of awaited phases: the update of the
\* job, then the SendAsync of its event.  A get job status of another thread
\* runs between any two steps; the update of a file_complete is the five
\* statements of its updateAction on the cached object.
RecordLines ==
    {Record("started", "", "", MaxTotal, NoText),
     Record("progress", "a.mp3", "", 1, NoText),
     Record("completed", "", "", 0, NoText),
     Record("error", "", "", 0, <<"boom">>)}
    \cup {Record("file_complete", f, s, 0, NoText) :
            f \in Filenames, s \in {"success", "error"}}

\* the ways the read loop ends: EndOfStream and the exit code, or an exception
EndLines ==
    {Record("exit", "", "zero", 0, NoText),
     Record("exit", "", "nonzero", 0, NoText),
     Record("exception", "", "", 0, NoText)}

\* the event the handler of a record sends
EventName(rec) ==
    CASE rec.type = "started" -> "JobStarted"
      [] rec.type = "progress" -> "FileProgress"
      [] rec.type = "file_complete" -> "FileComplete"
      [] rec.type = "error" -> "JobFailed"
      [] rec.type = "exception" -> "JobFailed"
      [] rec.type = "exit" /\ rec.status = "nonzero" -> "JobFailed"
      [] rec.type = "exit" /\ rec.status = "zero" -> "JobComplete"
      [] OTHER -> "none"

\* a handler that sends the event before it updates the job
HandlerPhases_sendFirst(rec) ==
    IF EventName(rec) = "none" THEN <<"update">> ELSE <<"send", "update">>

\* the awaited phases of the handler of a record, in program order
HandlerPhases(rec) ==
    IF EventName(rec) = "none" THEN <<"update">> ELSE <<"update", "send">>

\* the updateAction of a record other than file_complete
Updated(state, rec, now) ==
    CASE rec.type = "started" ->
            [state EXCEPT !.totalFiles = rec.number, !.status = "processing"]
      [] rec.type = "progress" ->
            [state EXCEPT !.currentFile = <<rec.filename>>]
      [] rec.type = "completed" ->
            [state EXCEPT !.status = "completed", !.endTime = now,
                          !.currentFile = NoText]
      [] rec.type = "error" ->
            [state EXCEPT !.status = "failed", !.error = rec.error, !.endTime = now]
      [] rec.type = "exception" ->
            [state EXCEPT !.status = "failed", !.error = ReaderMessage,
                          !.endTime = now]
      [] rec.type = "exit" /\ rec.status = "nonzero" ->
            [state EXCEPT !.status = "failed", !.error = ExitFailureMessage(<<>>),
                          !.endTime = now]
      [] rec.type = "exit" /\ rec.status = "zero" ->
            MarkCompleted(GetJobStatusState(state), now)

\* the statements of the updateAction of a file_complete, one at a time
FileCompleteStatement(state, rec, sub) ==
    CASE sub = 0 -> [state EXCEPT !.results = RemoveExisting(@, rec.filename)]
      [] sub = 1 -> [state EXCEPT !.results =
                        Append(@, [filename |-> rec.filename, status |-> rec.status])]
      [] sub = 2 -> [state EXCEPT !.processedFiles = CountProcessed(state.results)]
      [] sub = 3 -> [state EXCEPT !.successfulFiles =
                        CountStatus(state.results, {"success"})]
      [] sub = 4 -> [state EXCEPT !.failedFiles =
                        CountStatus(state.results, {"error"})]
LastStatement == 4

\* the loop reads the next line, or finds the stream ended, only when the
\* handler of the line before has returned
StepReadLine(rec) ==
    /\ pc = "read"
    /\ lineHeld = NoLine
    /\ rec \in RecordLines => linesRead < MaxLines
    /\ linesRead' = (IF rec \in RecordLines THEN linesRead + 1 ELSE linesRead)
    /\ lineHeld' = [rec |-> rec, no |-> linesRead + 1, todo |-> HandlerPhases(rec),
                    sub |-> 0, before |-> job, seen |-> inStore]
    /\ exit' = (CASE rec.type = "exit" -> rec.status
                  [] rec.type = "exception" -> "threw"
                  [] OTHER -> exit)
    /\ UNCHANGED <<inStore, idle, job, pc, stderrText, hist, startResp, exportVars,
                   applied, events, hubVars, clientVars, uploadVars>>

\* the phase of the handler is over: the next phase, or back to the loop
Proceed ==
    LET rest == Tail(lineHeld.todo)
    IN /\ lineHeld' = (IF rest = <<>> THEN NoLine
                       ELSE [lineHeld EXCEPT !.todo = rest, !.sub = 0])
       /\ pc' = (IF rest = <<>> /\ lineHeld.rec \in EndLines THEN "done" ELSE pc)

\* UpdateJobState of a record other than file_complete
StepUpdate ==
    /\ lineHeld # NoLine
    /\ Head(lineHeld.todo) = "update"
    /\ lineHeld.rec.type # "file_complete"
    /\ job' = UpdateJobState(Updated(job, lineHeld.rec, UtcNow))
    /\ idle' = Touch
    /\ applied' = Append(applied, [rec |-> lineHeld.rec, no |-> lineHeld.no])
    /\ Proceed
    /\ UNCHANGED <<inStore, linesRead, exit, stderrText, hist, startResp, exportVars,
                   events, hubVars, clientVars, uploadVars>>

\* one statement of the updateAction of a file_complete; after the last one
\* the entry is set again
StepFileComplete ==
    /\ lineHeld # NoLine
    /\ Head(lineHeld.todo) = "update"
    /\ lineHeld.rec.type = "file_complete"
    /\ job' = UpdateJobState(FileCompleteStatement(job, lineHeld.rec, lineHeld.sub))
    /\ IF inStore /\ lineHeld.sub < LastStatement
       THEN /\ lineHeld' = [lineHeld EXCEPT !.sub = @ + 1]
            /\ UNCHANGED <<pc, applied, idle>>
       ELSE /\ applied' = Append(applied, [rec |-> lineHeld.rec, no |-> lineHeld.no])
            /\ idle' = Touch
            /\ Proceed
    /\ UNCHANGED <<inStore, linesRead, exit, stderrText, hist, startResp, exportVars,
                   events, hubVars, clientVars, uploadVars>>

\* Clients.Group(...).SendAsync of the event of the line; JobComplete is sent
\* only if the get of the exit branch found the job
StepSend ==
    /\ lineHeld # NoLine
    /\ Head(lineHeld.todo) = "send"
    /\ events' = (IF EventName(lineHeld.rec) = "JobComplete" /\ ~lineHeld.seen
                  THEN events
                  ELSE Append(events, [name |-> EventName(lineHeld.rec),
                                       no |-> lineHeld.no]))
    /\ Proceed
    /\ UNCHANGED <<inStore, idle, job, linesRead, exit, stderrText, hist, startResp,
                   exportVars, applied, hubVars, clientVars, uploadVars>>

NextSteps ==
    \/ \E d \in BOOLEAN : StartBulkWaveformJobAsync(d)
    \/ TaskBegin
    \/ SpawnProcess
    \/ \E rec \in RecordLines \cup EndLines : StepReadLine(rec)
    \/ StepUpdate
    \/ StepFileComplete
    \/ StepSend
    \/ GetJobStatus

\* ------------------------------------------------------------- export
\* number of waveform columns of the CSV export
WaveformColumns == 480

\* the per-file artifact the external process left on disk for a stem
Artifacts ==
    {[exists |-> FALSE, hasData |-> FALSE, samples |-> 0],
     [exists |-> TRUE, hasData |-> FALSE, samples |-> 0]}
    \cup {[exists |-> TRUE, hasData |-> TRUE, samples |-> n] :
            n \in {0, WaveformColumns - 1, WaveformColumns, WaveformColumns + 1}}

Stems == {"a", "b"}

\* the job's temp directory as an export finds it
Disks ==
    {[dirExists |-> FALSE, files |-> [s \in Stems |-> CHOOSE a \in Artifacts : ~a.exists]]}
    \cup {[dirExists |-> TRUE, files |-> [s \in Stems |-> a]] : a \in Artifacts}

GetFileNameWithoutExtension(filename) ==
    CASE filename = "a.mp3" -> "a"
      [] filename = "b.mp3" -> "b"
      [] filename = "a.wav" -> "a"
      [] OTHER -> filename

ToLower(format) ==
    CASE format = "CSV" -> "csv"
      [] format = "Json" -> "json"
      [] format = ".MP3" -> ".mp3"
      [] OTHER -> format

Formats == {"json", "csv", "zip", "CSV", "xml", ""}
ValidFormats == {"json", "csv", "zip"}

\* a CSV line is a sequence of tokens; "," is the separator token
Repeat(token, n) == [i \in 1..n |-> token]

Join(values) ==
    [i \in 1..(IF values = <<>> THEN 0 ELSE 2 * Len(values) - 1) |->
        IF i % 2 = 1 THEN values[(i + 1) \div 2] ELSE ","]

Columns(line) == 1 + Cardinality({i \in DOMAIN line : line[i] = ","})

CsvHeader ==
    <<"filename", ",", "status", ",", "sampleCount", ",", "fileSizeMb", ",", "error">>
    \o [i \in 1..(2 * WaveformColumns) |-> IF i % 2 = 1 THEN "," ELSE "waveform_i"]

PadOrTruncate(values) ==
    LET padded == values \o Repeat("0.000", WaveformColumns - Len(values))
    IN IF Len(values) < WaveformColumns THEN padded
       ELSE SubSeq(values, 1, WaveformColumns)

CsvRow(result, disk) ==
    LET meta == <<"\"filename\"", ",", result.status, ",", "sampleCount", ",", "fileSizeMb">>
        file == disk.files[GetFileNameWithoutExtension(result.filename)]
    IN IF result.status = "error"
       THEN meta \o <<",", "\"error\"">> \o Repeat(",", WaveformColumns)
       ELSE meta \o <<",">>
            \o (IF file.exists /\ file.hasData
                THEN Join(PadOrTruncate(Repeat("0.500", file.samples)))
                ELSE <<>>)

ExportAsCsvAsync(jobStatus, disk) ==
    <<CsvHeader>> \o [i \in 1..Len(jobStatus.results) |-> CsvRow(jobStatus.results[i], disk)]

\* the name of the artifact of a stem
JsonFile(stem) == <<stem, ".json">>

\* the artifact a read endpoint opens for a filename of the job
ArtifactPath(filename) == JsonFile(GetFileNameWithoutExtension(filename))

\* the waveforms array of the JSON export: one element per entry added
RECURSIVE ExportAsJsonAsync(_, _)
ExportAsJsonAsync(results, disk) ==
    IF results = <<>> THEN <<>>
    ELSE LET result == Head(results)
             file == disk.files[GetFileNameWithoutExtension(result.filename)]
             entry == IF result.status = "success"
                      THEN IF file.exists
                           THEN <<[filename |-> result.filename, status |-> result.status,
                                   kind |-> "waveform",
                                   artifact |-> ArtifactPath(result.filename),
                                   samples |-> IF file.hasData THEN file.samples ELSE 0]>>
                           ELSE <<>>
                      ELSE <<[filename |-> result.filename, status |-> result.status,
                              kind |-> "error", artifact |-> NoText, samples |-> 0]>>
         IN entry \o ExportAsJsonAsync(Tail(results), disk)

\* the name of the manifest entry
ManifestEntry == <<"manifest", ".json">>

\* the names of the entries of the ZIP archive, in the order they are created
RECURSIVE ZipArtifacts(_, _)
ZipArtifacts(results, disk) ==
    IF results = <<>> THEN <<>>
    ELSE LET result == Head(results)
             stem == GetFileNameWithoutExtension(result.filename)
         IN (IF result.status = "success" /\ disk.files[stem].exists
             THEN <<JsonFile(stem)>> ELSE <<>>)
            \o ZipArtifacts(Tail(results), disk)

\* the files index of the manifest
ZipManifest(results) ==
    [i \in DOMAIN results |->
        [filename |-> results[i].filename,
         jsonFile |-> IF results[i].status = "success"
                      THEN JsonFile(GetFileNameWithoutExtension(results[i].filename))
                      ELSE NoText,
         status |-> results[i].status]]

ExportAsZipAsync(jobStatus, disk) ==
    [entries |-> ZipArtifacts(jobStatus.results, disk) \o <<ManifestEntry>>,
     manifest |-> ZipManifest(jobStatus.results)]

\* what the controller answers before it calls the service
ControllerAnswer_jobFirst(format, found, status) ==
    IF ~found THEN "not-found"
    ELSE IF ToLower(format) \notin ValidFormats THEN "bad-request"
    ELSE IF status # "completed" THEN "conflict"
    ELSE "export"

ControllerAnswer(format, found, status) ==
    IF ToLower(format) \notin ValidFormats THEN "bad-request"
    ELSE IF ~found THEN "not-found"
    ELSE IF status # "completed" THEN "conflict"
    ELSE "export"

\* the external process has been started with the job's temp directory
ProcessStarted ==
    pc = "read" \/ (pc = "done" /\ (linesRead > 0 \/ exit \in {"zero", "nonzero"}))

\* SermonsController.GetWaveformData and the service's GetWaveformDataAsync;
\* fileExists: the artifact of the file is in the job's temp directory
GetWaveformDataAsync(filename, fileExists) ==
    /\ fileExists => ProcessStarted
    /\ response' = Reply("waveform", IF fileExists THEN "ok" ELSE "not-found")
    /\ UNCHANGED <<inStore, idle, job, taskVars, startResp, exportPc, hubVars, stepVars, uploadVars,
                   clientVars>>

\* SermonsController.ExportWaveformData up to the call of the service
ExportWaveformData(format) ==
    /\ exportPc = "idle"
    /\ LET answer == ControllerAnswer(format, inStore, job.status)
       IN /\ job' = (IF ToLower(format) \in ValidFormats /\ inStore
                     THEN GetJobStatusState(job) ELSE job)
          /\ IF answer = "export"
             THEN /\ exportPc' = ToLower(format)
                  /\ response' = NoResponse
             ELSE /\ exportPc' = "idle"
                  /\ response' = Answer(answer)
    /\ idle' = (IF ToLower(format) \in ValidFormats THEN Touch ELSE idle)
    /\ UNCHANGED <<inStore, taskVars, startResp, hubVars, stepVars, uploadVars, clientVars>>

\* WaveformService.ExportWaveformDataAsync and the controller's answer
ExportWaveformDataAsync(disk) ==
    /\ exportPc # "idle"
    /\ exportPc' = "idle"
    /\ idle' = Touch
    /\ job' = (IF inStore THEN GetJobStatusState(job) ELSE job)
    /\ response' =
          IF ~inStore \/ job.status # "completed" \/ ~disk.dirExists
          THEN Answer("not-found")
          ELSE [endpoint |-> "export", code |-> "ok", format |-> exportPc,
                csvColumns |-> IF exportPc = "csv"
                               THEN LET lines == ExportAsCsvAsync(job, disk)
                                    IN [i \in DOMAIN lines |-> Columns(lines[i])]
                               ELSE <<>>,
                waveforms |-> IF exportPc = "json"
                              THEN ExportAsJsonAsync(job.results, disk) ELSE <<>>,
                archive |-> IF exportPc = "zip"
                            THEN ExportAsZipAsync(job, disk)
                            ELSE [entries |-> <<>>, manifest |-> <<>>]]
    /\ UNCHANGED <<inStore, taskVars, startResp, hubVars, stepVars, uploadVars, clientVars>>

\* ---------------------------------------------------------------- hub
\* every job's events go to one group for all jobs
GroupName_shared(jobId) == <<"job-">>

GroupName(jobId) == <<"job-", jobId>>

OnConnectedAsync(connectionId) ==
    /\ connectionId \notin online
    /\ online' = online \cup {connectionId}
    /\ UNCHANGED <<groups, received, sent, subs, serviceVars, clientVars, stepVars, uploadVars>>

\* a connection that ends leaves every group
OnDisconnectedAsync(connectionId) ==
    /\ connectionId \in online
    /\ online' = online \ {connectionId}
    /\ groups' = {m \in groups : m[1] # connectionId}
    /\ subs' = {m \in subs : m[1] # connectionId}
    /\ UNCHANGED <<received, sent, serviceVars, clientVars, stepVars, uploadVars>>

SubscribeToJob(connectionId, jobId) ==
    /\ connectionId \in online
    /\ groups' = groups \cup {<<connectionId, GroupName(jobId)>>}
    /\ subs' = subs \cup {<<connectionId, jobId>>}
    /\ UNCHANGED <<online, received, sent, serviceVars, clientVars, stepVars, uploadVars>>

UnsubscribeFromJob(connectionId, jobId) ==
    /\ connectionId \in online
    /\ groups' = groups \ {<<connectionId, GroupName(jobId)>>}
    /\ subs' = subs \ {<<connectionId, jobId>>}
    /\ UNCHANGED <<online, received, sent, serviceVars, clientVars, stepVars, uploadVars>>

\* _hubContext.Clients.Group("job-" + jobId).SendAsync of the service
SendToGroup(jobId) ==
    /\ sent < MaxEvents
    /\ sent' = sent + 1
    /\ received' = [c \in Connections |->
                      IF <<c, GroupName(jobId)>> \in groups
                      THEN Append(received[c], [jobId |-> jobId, id |-> sent])
                      ELSE received[c]]
    /\ UNCHANGED <<groups, online, subs, serviceVars, clientVars, stepVars, uploadVars>>

\* ------------------------------------------------------------- client
\* the connectionState of useWaveformProgress
connectionState ==
    CASE connection \in {"starting", "reconnecting"} -> "connecting"
      [] connection = "connected" -> "connected"
      [] OTHER -> "disconnected"

isProcessing == display.status \in {"queued", "processing"}

\* the condition under which the polling effect keeps its interval
PollingActive ==
    /\ display # NoJobStatus
    /\ isProcessing
    /\ connectionState # "connected"

\* the start response has arrived: jobStatus and jobId are set, and the effect
\* of the hook begins to start the connection
handleStartJob ==
    /\ startResp = "queued"
    /\ display = NoJobStatus
    /\ display' = [status |-> "queued", totalFiles |-> 0, processedFiles |-> 0,
                   results |-> <<>>]
    /\ connection' = "starting"
    /\ UNCHANGED <<subscribed, invokePending, polls, clientHist, serviceVars, hubVars, stepVars, uploadVars>>

\* connection.start() resolves: connected, and SubscribeToJob is invoked
startConnection ==
    /\ connection = "starting"
    /\ connection' = "connected"
    /\ invokePending' = TRUE
    /\ UNCHANGED <<display, subscribed, polls, clientHist, serviceVars, hubVars, stepVars, uploadVars>>

\* connection.start() rejects
startConnectionFails ==
    /\ connection = "starting"
    /\ connection' = "closed"
    /\ UNCHANGED <<display, subscribed, invokePending, polls, clientHist, serviceVars,
                   hubVars, stepVars, uploadVars>>

\* the connection is lost: the hub drops it from the group, a SubscribeToJob
\* call in flight fails, and the client begins to reconnect
onreconnecting ==
    /\ connection = "connected"
    /\ connection' = "reconnecting"
    /\ subscribed' = FALSE
    /\ invokePending' = FALSE
    /\ clientHist' = [clientHist EXCEPT !.dropped = TRUE]
    /\ UNCHANGED <<display, polls, serviceVars, hubVars, stepVars, uploadVars>>

onreconnected ==
    /\ connection = "reconnecting"
    /\ connection' = "connected"
    /\ invokePending' = TRUE
    /\ UNCHANGED <<display, subscribed, polls, clientHist, serviceVars, hubVars, stepVars, uploadVars>>

\* the connection is closed for good
onclose ==
    /\ connection \in {"connected", "reconnecting"}
    /\ connection' = "closed"
    /\ subscribed' = FALSE
    /\ invokePending' = FALSE
    /\ clientHist' = [clientHist EXCEPT !.dropped = TRUE]
    /\ UNCHANGED <<display, polls, serviceVars, hubVars, stepVars, uploadVars>>

\* the hub runs the SubscribeToJob the client invoked
ClientSubscribed ==
    /\ invokePending
    /\ invokePending' = FALSE
    /\ subscribed' = TRUE
    /\ clientHist' = [clientHist EXCEPT !.dropped = FALSE]
    /\ UNCHANGED <<display, connection, polls, serviceVars, hubVars, stepVars, uploadVars>>

\* a tick of the poll interval: the request is sent and the server reads the
\* job; a not-found answer throws in the client and is dropped
PollRequest ==
    /\ PollingActive
    /\ Cardinality(polls) < MaxInFlight
    /\ job' = (IF inStore THEN GetJobStatusState(job) ELSE job)
    /\ idle' = Touch
    /\ polls' = (IF inStore THEN polls \cup {Snapshot(job)} ELSE polls)
    /\ clientHist' = [clientHist EXCEPT !.missed = IF inStore THEN FALSE ELSE @]
    /\ UNCHANGED <<inStore, taskVars, startResp, exportVars, hubVars, stepVars, uploadVars, display,
                   connection, subscribed, invokePending>>

\* the answer of a poll arrives: setJobStatus(statusData)
PollResponse(statusData) ==
    /\ statusData \in polls
    /\ polls' = polls \ {statusData}
    /\ display' = statusData
    /\ clientHist' = [clientHist EXCEPT
                        !.terminalPolled = @ \/ statusData.status \in Terminal]
    /\ UNCHANGED <<connection, subscribed, invokePending, serviceVars, hubVars, stepVars, uploadVars>>

\* ------------------------------------------------------ upload endpoint
allowedExtensions == {".mp3", ".mp4", ".wav", ".m4a", ".mov"}
\* Path.GetExtension of the uploaded file names the requests carry
UploadExtensions == {".mp3", ".MP3", ".wav", ".txt"}

\* the temp file of a call: its name is a fresh Guid, so the call identifies it
TempFile(call, fileExtension) == [owner |-> call, ext |-> fileExtension]

\* the finally block: every *.mp3 file of the temp directory is deleted
CleanupTempFiles(files) == {f \in files : f.ext # ".mp3"}

\* the service instance that serves a request: the registration is AddScoped,
\* a new instance with an empty _processingCache for every request
ServiceInstance(request) == request

\* the validations fail: the call returns failed, and the finally block runs
RejectUpload(call, hasFile, extension) ==
    /\ uploads[call].pc = "none"
    /\ ~hasFile \/ ToLower(extension) \notin allowedExtensions
    /\ uploads' = [uploads EXCEPT ![call] =
                      [pc |-> "returned", ext |-> "", id |-> NoId,
                       status |-> "failed", lost |-> FALSE]]
    /\ tempFiles' = CleanupTempFiles(tempFiles)
    /\ UNCHANGED <<processingCache, statusResponse, serviceVars, hubVars, clientVars,
                   stepVars>>

\* the upload is saved to Path.GetTempPath() under a new Guid
SaveUpload(call, extension) ==
    /\ uploads[call].pc = "none"
    /\ ToLower(extension) \in allowedExtensions
    /\ uploads' = [uploads EXCEPT ![call] =
                      [NoCall EXCEPT !.pc = "saved", !.ext = ToLower(extension)]]
    /\ tempFiles' = tempFiles \cup {TempFile(call, ToLower(extension))}
    /\ UNCHANGED <<processingCache, statusResponse, serviceVars, hubVars, clientVars,
                   stepVars>>

\* PythonAgentService.ProcessSermonAsync: File.Copy of the temp file, then the
\* agent; a missing file or a failing agent gives a failed response with an id
ProcessSermonAsync(call, agentSucceeds) ==
    /\ uploads[call].pc = "saved"
    /\ LET present == TempFile(call, uploads[call].ext) \in tempFiles
       IN uploads' = [uploads EXCEPT ![call] =
                        [@ EXCEPT !.pc = "processed",
                                  !.id = RequestId(call),
                                  !.status = IF present /\ agentSucceeds
                                             THEN "completed" ELSE "failed",
                                  !.lost = ~present]]
    /\ UNCHANGED <<tempFiles, processingCache, statusResponse, serviceVars, hubVars,
                   clientVars, stepVars>>

\* the result is cached in the instance, the finally block runs, the call returns
ReturnUpload(call) ==
    /\ uploads[call].pc = "processed"
    /\ uploads' = [uploads EXCEPT ![call].pc = "returned"]
    /\ processingCache' = [processingCache EXCEPT ![ServiceInstance(call)] =
                              @ \cup {uploads[call].id}]
    /\ tempFiles' = CleanupTempFiles(tempFiles)
    /\ UNCHANGED <<statusResponse, serviceVars, hubVars, clientVars, stepVars>>

\* SermonsController.GetStatus and the service's GetProcessingStatusAsync
GetProcessingStatusAsync(request, id) ==
    /\ statusResponse' =
          [code |-> IF id \in processingCache[ServiceInstance(request)]
                    THEN "ok" ELSE "not-found",
           id |-> id]
    /\ UNCHANGED <<uploads, tempFiles, processingCache, serviceVars, hubVars,
                   clientVars, stepVars>>

NextUpload ==
    \/ \E c \in Calls, h \in BOOLEAN, e \in UploadExtensions : RejectUpload(c, h, e)
    \/ \E c \in Calls, e \in UploadExtensions : SaveUpload(c, e)
    \/ \E c \in Calls, a \in BOOLEAN : ProcessSermonAsync(c, a)
    \/ \E c \in Calls : ReturnUpload(c)
    \/ \E g \in StatusRequests, c \in Calls : GetProcessingStatusAsync(g, RequestId(c))

\* the client beside a background task whose process writes well-formed records
NextClient ==
    \/ \E d \in BOOLEAN : StartBulkWaveformJobAsync(d)
    \/ TaskBegin
    \/ SpawnProcess
    \/ RecStarted(MaxTotal)
    \/ \E f \in Filenames : RecProgress(f)
    \/ \E f \in Filenames, s \in {"success", "error"} : RecFileComplete(f, s)
    \/ RecCompleted
    \/ ExitNonzero(<<>>)
    \/ ExitZero
    \/ handleStartJob
    \/ startConnection
    \/ startConnectionFails
    \/ onreconnecting
    \/ onreconnected
    \/ onclose
    \/ ClientSubscribed
    \/ PollRequest
    \/ \E s \in polls : PollResponse(s)

NextHub ==
    \/ \E c \in Connections : OnConnectedAsync(c)
    \/ \E c \in Connections : OnDisconnectedAsync(c)
    \/ \E c \in Connections, j \in JobIds : SubscribeToJob(c, j)
    \/ \E c \in Connections, j \in JobIds : UnsubscribeFromJob(c, j)
    \/ \E j \in JobIds : SendToGroup(j)

Next ==
    \/ \E d \in BOOLEAN : StartBulkWaveformJobAsync(d)
    \/ Tick
    \/ Expire
    \/ GetJobStatus
    \/ TaskBegin
    \/ SpawnProcess
    \/ SpawnFails
    \/ ReaderThrows
    \/ \E k \in SkippedKinds : LineSkipped(k)
    \/ \E k \in ThrowingKinds : LineThrows(k)
    \/ \E n \in TotalValues : RecStarted(n)
    \/ \E f \in Filenames : RecProgress(f)
    \/ \E f \in Filenames, s \in FileStatuses : RecFileComplete(f, s)
    \/ RecCompleted
    \/ \E m \in ErrorTexts : RecError(m)
    \/ \E e \in StderrTexts : ExitNonzero(e)
    \/ ExitZero

\* the read endpoints beside a background task whose process writes only
\* well-formed started, file_complete, completed and error records and exits
\* with code 0
NextRead ==
    \/ \E d \in BOOLEAN : StartBulkWaveformJobAsync(d)
    \/ Tick
    \/ Expire
    \/ TaskBegin
    \/ SpawnProcess
    \/ RecStarted(MaxTotal)
    \/ \E f \in Filenames, s \in FileStatuses : RecFileComplete(f, s)
    \/ RecCompleted
    \/ \E m \in ErrorTexts : RecError(m)
    \/ ExitZero
    \/ GetJobStatus
    \/ \E f \in Filenames, e \in BOOLEAN : GetWaveformDataAsync(f, e)
    \/ \E f \in Formats : ExportWaveformData(f)
    \/ \E d \in Disks : ExportWaveformDataAsync(d)

\* files of one directory that differ only in their extension
StemFilenames == {"a.mp3", "a.wav"}

\* the exports of a job whose directory holds a.mp3 and a.wav
NextStems ==
    \/ \E d \in BOOLEAN : StartBulkWaveformJobAsync(d)
    \/ TaskBegin
    \/ SpawnProcess
    \/ \E f \in StemFilenames, s \in {"success", "error"} : RecFileComplete(f, s)
    \/ RecCompleted
    \/ ExitZero
    \/ \E f \in StemFilenames, e \in BOOLEAN : GetWaveformDataAsync(f, e)
    \/ \E f \in {"json", "zip"} : ExportWaveformData(f)
    \/ \E d \in Disks : ExportWaveformDataAsync(d)

\* ============================================================ statements
Contains(text, part) ==
    \E i \in 0..(Len(text) - Len(part)) : SubSeq(text, i + 1, i + Len(part)) = part

Counters(state) ==
    <<state.processedFiles, state.successfulFiles, state.failedFiles>>

\* C1: once the stored status of a job is completed or failed, no step of the
\* orchestrator (record, exit code, caught exception) changes it again.
C1_TerminalStatusIsFinal ==
    [][(inStore /\ inStore' /\ job.status \in Terminal)
        => job'.status = job.status]_vars

\* C2: after any sequence of file_complete records the stored counters satisfy
\* processedFiles = successfulFiles + failedFiles.
C2_ProcessedIsSum ==
    job.processedFiles = job.successfulFiles + job.failedFiles

\* a job holding one error result and one result that is neither success nor error
C2_Witness ==
    /\ inStore
    /\ Len(job.results) = 2
    /\ job.processedFiles = 1
    /\ job.failedFiles = 1

\* C3: once a started record has set totalFiles, processedFiles never exceeds
\* totalFiles.
C3_ProcessedWithinTotal ==
    (inStore /\ hist.totalKnown) => job.processedFiles <= job.totalFiles

\* C4: a file_complete record leaves exactly one result for its filename, equal
\* to the record, and applying the same record once more changes neither the
\* results nor the counters.
C4_LastWriteWins ==
    [][\A f \in Filenames, s \in FileStatuses :
        (inStore /\ RecFileComplete(f, s)) =>
            LET fileResult == [filename |-> f, status |-> s]
                same == {i \in DOMAIN job'.results : job'.results[i].filename = f}
            IN /\ Cardinality(same) = 1
               /\ \A i \in same : job'.results[i] = fileResult
               /\ ProcessFileComplete(job', fileResult) = job'
               /\ Counters(job') = <<CountStatus(job'.results, {"success", "error"}),
                                     CountStatus(job'.results, {"success"}),
                                     CountStatus(job'.results, {"error"})>>]_vars

\* a record for a filename that already had a result has been applied
C4_Witness ==
    /\ inStore
    /\ hist.replaced
    /\ Len(job.results) = 2

\* C5: a file_complete record read when the job is already completed or failed
\* leaves the results and the three counters unchanged.
C5_NoFileUpdateAfterTerminal ==
    [][\A f \in Filenames, s \in FileStatuses :
        (inStore /\ job.status \in Terminal /\ RecFileComplete(f, s)) =>
            (job'.results = job.results /\ Counters(job') = Counters(job))]_vars

\* C6: after a nonzero exit with no completed or error record applied before,
\* the job is failed, it became failed exactly once, endTime is the time of the
\* exit, and the error holds the captured stderr text.
C6_NonzeroExitFailsOnce ==
    (inStore /\ pc = "done" /\ exit = "nonzero" /\ ~hist.terminalRec) =>
        /\ job.status = "failed"
        /\ hist.failTransitions = 1
        /\ job.endTime = linesRead + 1
        /\ Contains(job.error, stderrText)

C6_Witness ==
    /\ inStore
    /\ pc = "done"
    /\ exit = "nonzero"
    /\ ~hist.terminalRec
    /\ stderrText = <<"Traceback">>
    /\ job.status = "failed"
    /\ linesRead > 1

\* C7: when the job is already failed, an error record, a nonzero exit or a
\* reader exception leaves status, error and endTime as they were.
C7_FailingFailedIsNoOp ==
    [][(/\ inStore
        /\ job.status = "failed"
        /\ \/ \E m \in ErrorTexts : RecError(m)
           \/ \E e \in StderrTexts : ExitNonzero(e)
           \/ ReaderThrows)
        => /\ job'.status = job.status
           /\ job'.error = job.error
           /\ job'.endTime = job.endTime]_vars

\* C8: a malformed line or a line of unknown discriminant changes nothing in the
\* job's state and the read loop goes on to the next line.
C8_MalformedLineSkipped ==
    [][(\E k \in MalformedKinds : LineSkipped(k) \/ LineThrows(k))
        => (job' = job /\ pc' = "read")]_vars

\* C9: the export endpoint answers bad-request for an invalid format, else
\* not-found for a job absent from the store, else conflict for a job that is
\* not completed; a payload is produced only from a completed job.
C9_ExportAnswers ==
    [][/\ \A f \in Formats : ExportWaveformData(f) =>
            /\ ToLower(f) \notin ValidFormats => response'.code = "bad-request"
            /\ (ToLower(f) \in ValidFormats /\ ~inStore)
                  => response'.code = "not-found"
            /\ (ToLower(f) \in ValidFormats /\ inStore /\ job.status # "completed")
                  => response'.code = "conflict"
            /\ response'.code # "ok"
       /\ ((\E d \in Disks : ExportWaveformDataAsync(d)) /\ response'.code = "ok")
            => (inStore /\ job.status = "completed")]_vars

\* an export of a failed job was answered with conflict
C9_Witness ==
    /\ inStore
    /\ job.status = "failed"
    /\ response.code = "conflict"

\* C10: a CSV export holds the header and one line per result, and every line
\* has the header's 5 + 480 columns.
C10_CsvColumnCount ==
    [][((\E d \in Disks : ExportWaveformDataAsync(d))
         /\ response'.code = "ok" /\ response'.format = "csv")
        => /\ Len(response'.csvColumns) = Len(job.results) + 1
           /\ \A i \in DOMAIN response'.csvColumns :
                 response'.csvColumns[i] = 5 + WaveformColumns]_vars

\* C11: the JSON export of a completed job holds exactly one entry per
\* FileResult, in the order of the results: an entry with the waveform samples
\* for a success result, an entry with the error for an error result.
C11_JsonEntryPerResult ==
    [][(exportPc = "json" /\ response'.code = "ok") =>
        /\ Len(response'.waveforms) = Len(job.results)
        /\ \A i \in DOMAIN job.results :
              /\ response'.waveforms[i].filename = job.results[i].filename
              /\ job.results[i].status = "success"
                    => response'.waveforms[i].kind = "waveform"
              /\ job.results[i].status = "error"
                    => response'.waveforms[i].kind = "error"]_vars

\* C12: the ZIP export of a completed job holds one artifact entry per success
\* result plus the manifest entry; the manifest has one item per FileResult,
\* its jsonFile is non-null exactly for the success results, and every
\* non-null jsonFile names an entry of the archive.
C12_ZipEntriesMatchManifest ==
    [][(exportPc = "zip" /\ response'.code = "ok") =>
        LET entries == response'.archive.entries
            manifest == response'.archive.manifest
        IN /\ Len(entries) = CountStatus(job.results, {"success"}) + 1
           /\ entries[Len(entries)] = ManifestEntry
           /\ Len(manifest) = Len(job.results)
           /\ \A i \in DOMAIN manifest :
                 /\ manifest[i].filename = job.results[i].filename
                 /\ (manifest[i].jsonFile # NoText)
                       <=> (job.results[i].status = "success")
                 /\ manifest[i].jsonFile # NoText
                       => \E k \in DOMAIN entries : entries[k] = manifest[i].jsonFile]_vars

\* C17: a snapshot returned by get job status carries estimatedRemainingSeconds
\* only if at that read processedFiles > 0 and the status is processing.
C17_EstimateOnlyWhileProcessing ==
    [][(GetJobStatus /\ inStore /\ job'.estimated)
        => (job.processedFiles > 0 /\ job.status = "processing")]_vars

\* C18: for a job that is not in the store (never created, or expired) every
\* read endpoint (status, single-file waveform, export in a valid format)
\* answers not-found.
C18_ReadsOfUnknownJobNotFound ==
    [][(/\ ~inStore
        /\ \/ GetJobStatus
           \/ \E f \in Filenames, e \in BOOLEAN : GetWaveformDataAsync(f, e)
           \/ \E f \in ValidFormats : ExportWaveformData(f)
           \/ \E d \in Disks : ExportWaveformDataAsync(d))
        => response'.code = "not-found"]_vars

\* the steps of the background task that call UpdateJobState or GetJobStatus
TaskUpdate ==
    \/ TaskBegin \/ SpawnFails \/ ReaderThrows
    \/ \E k \in ThrowingKinds : LineThrows(k)
    \/ \E n \in TotalValues : RecStarted(n)
    \/ \E f \in Filenames : RecProgress(f)
    \/ \E f \in Filenames, s \in FileStatuses : RecFileComplete(f, s)
    \/ RecCompleted
    \/ \E m \in ErrorTexts : RecError(m)
    \/ \E e \in StderrTexts : ExitNonzero(e)
    \/ ExitZero

\* C19: an entry leaves the store only by the tick that completes an idle
\* window, and every get or update restarts the window; once the entry is gone
\* a get answers not-found exactly as for a job never created, and no update of
\* the still running background task brings the entry back.
C19_SlidingEvictionIsFinal ==
    [][/\ (inStore /\ ~inStore') => (Expire /\ idle = WindowTicks - 1)
       /\ (inStore /\ (GetJobStatus \/ TaskUpdate)) => (inStore' /\ idle' = 0)
       /\ (inStore /\ idle' > idle) => Tick
       /\ (~inStore /\ GetJobStatus) => response' = Reply("status", "not-found")
       /\ (~inStore /\ inStore') => \E d \in BOOLEAN : StartBulkWaveformJobAsync(d)]_vars

\* the entry was evicted while the task was running, the task has tried an
\* update since, and a get has been answered not-found
C19_Witness ==
    /\ ~inStore
    /\ hist.lateUpdate
    /\ response = Reply("status", "not-found")

C13_DeliveryToSubscribers ==
    [][/\ \A j \in JobIds : SendToGroup(j) =>
             \A c \in Connections :
                received'[c] = IF <<c, j>> \in subs
                               THEN Append(received[c], [jobId |-> j, id |-> sent])
                               ELSE received[c]
       /\ \A c \in Connections, j \in JobIds :
             /\ (SubscribeToJob(c, j) \/ UnsubscribeFromJob(c, j))
                   => received' = received
             /\ (SubscribeToJob(c, j) /\ <<c, j>> \in subs) => groups' = groups
             /\ (UnsubscribeFromJob(c, j) /\ <<c, j>> \notin subs) => groups' = groups
       /\ \A c \in Connections : \A m, n \in DOMAIN received'[c] :
             received'[c][m] = received'[c][n] => m = n]_vars

\* c1, subscribed to both jobs, got every event; c2, subscribed to J2 after the
\* first event of J2 was sent, got only the later one
C13_Witness ==
    /\ subs = {<<"c1", "J1">>, <<"c1", "J2">>, <<"c2", "J2">>}
    /\ Len(received["c1"]) = MaxEvents
    /\ Len(received["c2"]) = 1
    /\ \E n \in DOMAIN received["c1"] :
          /\ received["c1"][n].jobId = "J2"
          /\ received["c1"][n] # received["c2"][1]

\* C14: over every interleaving of live events and poll answers the displayed
\* processedFiles never decreases and the displayed results never hold two
\* entries of one filename.
C14_DisplayNeverRegresses ==
    [][display # NoJobStatus =>
        /\ display'.processedFiles >= display.processedFiles
        /\ \A m, n \in DOMAIN display'.results :
              display'.results[m].filename = display'.results[n].filename => m = n]_vars

\* C15: when the connection is re-established after a drop during which events
\* were broadcast, the client fetches the job's status from the store.
C15_ReconnectFetchesStatus ==
    [][(onreconnected /\ clientHist.missed) => \E s \in polls' : s \notin polls]_vars

\* C16: a poll is issued only while the client has a job, shows it queued or
\* processing and is not connected, and never after a poll answer reported
\* completed or failed.
C16_PollsOnlyWhileProcessing ==
    [][PollRequest =>
        /\ display # NoJobStatus
        /\ display.status \in {"queued", "processing"}
        /\ connectionState # "connected"
        /\ ~clientHist.terminalPolled]_vars

\* C28: within one job distinct filenames have distinct artifacts: an export
\* never gives two filenames the same artifact, and the ZIP archive never holds
\* two entries of one name.
C28_DistinctArtifacts ==
    [][(exportPc \in {"json", "zip"} /\ response'.code = "ok") =>
        LET entries == response'.archive.entries
            waveforms == response'.waveforms
        IN /\ \A m, n \in DOMAIN entries : entries[m] = entries[n] => m = n
           /\ \A m, n \in DOMAIN waveforms :
                 (/\ waveforms[m].kind = "waveform"
                  /\ waveforms[n].kind = "waveform"
                  /\ waveforms[m].filename # waveforms[n].filename)
                 => waveforms[m].artifact # waveforms[n].artifact]_vars

\* C29: the cleanup of an upload call removes exactly the temp file the call
\* created: no call finds its temp file deleted by another call before the
\* agent has copied it, and the file of a returned call is gone.
C29_CleanupRemovesOwnFile ==
    \A c \in Calls :
        /\ ~uploads[c].lost
        /\ uploads[c].pc = "returned"
              => \A f \in tempFiles : f.owner # c

\* C30: after a process-sermon request has returned a response with id X, a
\* get-status request for X is answered with that response, not with not-found.
C30_StatusAfterProcess ==
    [][\A g \in StatusRequests, c \in Calls :
        (/\ GetProcessingStatusAsync(g, RequestId(c))
         /\ uploads[c].pc = "returned"
         /\ uploads[c].id = RequestId(c))
        => statusResponse'.code = "ok"]_vars

\* what a reader sees of the results and the counters of a job
Observed(state) == <<state.results, Counters(state)>>

\* C21: a get job status that runs while the background task applies a record
\* observes the job as it was before the record or as it is after it, with
\* processedFiles = successfulFiles + failedFiles, and the get itself leaves
\* the stored job as it is.
C21_NoTornRead ==
    [][(GetJobStatus /\ inStore) =>
        /\ job.processedFiles = job.successfulFiles + job.failedFiles
        /\ (lineHeld.rec.type = "file_complete" /\ Head(lineHeld.todo) = "update")
              => Observed(job) \in
                    {Observed(lineHeld.before),
                     Observed(ProcessFileComplete(lineHeld.before,
                        [filename |-> lineHeld.rec.filename,
                         status |-> lineHeld.rec.status]))}
        /\ job' = job]_vars

\* the entries of the log of updates whose record sends an event
RECURSIVE WithEvent(_)
WithEvent(log) ==
    IF log = <<>> THEN <<>>
    ELSE (IF EventName(Head(log).rec) = "none" THEN <<>>
          ELSE <<[name |-> EventName(Head(log).rec), no |-> Head(log).no]>>)
         \o WithEvent(Tail(log))

\* C22: the records of a job are applied in the order of the stdout lines, the
\* update of a record is committed before its event is broadcast, and the
\* event is broadcast before the next line is read; so the updates and the
\* events are in the order of the lines that caused them.
C22_InOrder ==
    /\ \A i \in DOMAIN applied : applied[i].no = i
    /\ Len(applied) \in {linesRead - 1, linesRead, linesRead + 1}
    /\ events = IF lineHeld # NoLine /\ Head(lineHeld.todo) = "send"
                THEN SubSeq(WithEvent(applied), 1, Len(WithEvent(applied)) - 1)
                ELSE WithEvent(applied)
    /\ lineHeld # NoLine
          => /\ lineHeld.no = linesRead + (IF lineHeld.rec \in EndLines THEN 1 ELSE 0)
             /\ Len(applied) = IF Head(lineHeld.todo) = "update"
                               THEN lineHeld.no - 1 ELSE lineHeld.no
    /\ (lineHeld = NoLine /\ pc = "read") => Len(applied) = linesRead

\* started, file_complete and completed records and an exit with code 0 have
\* been applied: three events in the order of their lines, none for completed
C22_Witness ==
    /\ pc = "done"
    /\ Len(applied) = 4
    /\ applied[3].rec.type = "completed"
    /\ events = <<[name |-> "JobStarted", no |-> 1],
                  [name |-> "FileComplete", no |-> 2],
                  [name |-> "JobComplete", no |-> 4]>>

\* C23: the terminal events of a job agree with its final status: JobComplete
\* only for a completed job, JobFailed only for a failed one, and at most one
\* terminal event is broadcast.
C23_TerminalEventsAgree ==
    /\ Cardinality({i \in DOMAIN events :
                        events[i].name \in {"JobComplete", "JobFailed"}}) <= 1
    /\ (inStore /\ pc = "done") =>
          \A i \in DOMAIN events :
             /\ events[i].name = "JobComplete" => job.status = "completed"
             /\ events[i].name = "JobFailed" => job.status = "failed"

\* C24: if the job reaches completed or failed in the store, a client tracking
\* it eventually displays a terminal status, whenever its subscription takes
\* effect and whichever events it missed.
C24_ClientSeesTerminal ==
    (inStore /\ job.status \in Terminal /\ display # NoJobStatus)
        ~> (display.status \in Terminal)

\* C25: at an exit with code 0 a job that is still processing becomes completed
\* with endTime set; a job already completed or failed keeps its status, error
\* and endTime.
C25_ExitZeroCompletesOnce ==
    [][(inStore /\ ExitZero) =>
        /\ job.status = "processing"
              => (job'.status = "completed" /\ job'.endTime = UtcNow
                    /\ job'.endTime # NoTime)
        /\ job.status \in Terminal
              => /\ job'.status = job.status
                 /\ job'.error = job.error
                 /\ job'.endTime = job.endTime]_vars

\* the process of a job failed by an error record has exited with code 0
C25_Witness ==
    /\ inStore
    /\ pc = "done"
    /\ exit = "zero"
    /\ job.status = "failed"
    /\ job.error = <<"boom">>

\* C26: the stored status of a job leaves queued for processing only by a
\* started record or a progress record; until then it remains queued.
C26_ProcessingOnlyByRecord ==
    [][(inStore /\ inStore' /\ job.status = "queued" /\ job'.status = "processing")
        => \/ \E n \in TotalValues : RecStarted(n)
           \/ \E f \in Filenames : RecProgress(f)]_vars

\* the process ends: it closes stdout and exits, or reading its output throws
ProcessEnds ==
    \/ ExitZero
    \/ \E e \in StderrTexts : ExitNonzero(e)
    \/ ReaderThrows

\* C27: every started job whose process fails to spawn or ends reaches
\* completed or failed, unless its entry has expired.
C27_JobTerminates ==
    (startResp = "queued") ~> (pc = "done" /\ (inStore => job.status \in Terminal))

\* a job without a completed record, completed by the exit after MaxLines lines
C27_Witness ==
    /\ inStore
    /\ pc = "done"
    /\ exit = "zero"
    /\ linesRead = MaxLines
    /\ ~hist.terminalRec
    /\ job.status = "completed"

Spec == Init /\ [][Next]_vars
\* the background task keeps running, and the process it spawned ends
SpecLive ==
    /\ Spec
    /\ WF_vars(TaskBegin)
    /\ WF_vars(SpawnProcess \/ SpawnFails)
    /\ WF_vars(ProcessEnds)
SpecSteps == Init /\ [][NextSteps]_vars
SpecStems == Init /\ [][NextStems]_vars
SpecUpload == Init /\ [][NextUpload]_vars
SpecClient == Init /\ [][NextClient]_vars
\* the server stays reachable: the task runs to its end, connection attempts
\* and SubscribeToJob calls are answered, and a poll is sent if polling is
\* switched on again and again (so a connection that only flaps does not keep
\* the client from polling) and is answered
SpecClientLive ==
    /\ SpecClient
    /\ WF_vars(TaskBegin)
    /\ WF_vars(SpawnProcess)
    /\ WF_vars(ExitZero \/ ExitNonzero(<<>>))
    /\ WF_vars(startConnection)
    /\ WF_vars(onreconnected)
    /\ WF_vars(ClientSubscribed)
    /\ SF_vars(PollRequest)
    /\ WF_vars(\E s \in polls : PollResponse(s))
SpecHub == Init /\ [][NextHub]_vars
SpecRead == Init /\ [][NextRead]_vars
====
